---- MODULE Spec2Model ----
(***************************************************************************)
(* A model of the GPS web tracker (gps_web_tracker.py): the byte stream    *)
(* framer and ingestion loop of GPSWebTracker.listen, the report extractor *)
(* parse_gps_data / _extract_gps_point, the bounded per-sender history     *)
(* store (store_gps_data, load_historical_data), the readers of the store  *)
(* (get_sender_summary, create_map_html) and the life cycle driven by      *)
(* main() and disconnect().                                                *)
(*                                                                         *)
(* Python values are modelled as follows.  A dict is a sequence of         *)
(* [k, v] entries in insertion order (Python dicts keep it).  A str-or-   *)
(* None value is a string, None being Absent; a number-or-None or          *)
(* bool-or-None value is Missing or Some(v), and a dict key that is not    *)
(* there reads, through .get(), as None.  A float is an integer number of  *)
(* hundredths, or NaN: F(n) and NaN.  The text of a message and the bytes  *)
(* of the stream are sequences of one-character (one-byte) strings.  A     *)
(* point dict keeps the keys the modelled operations read: sender,         *)
(* timestamp, lat, lng, altitude and emergency.                            *)
(***************************************************************************)
EXTENDS Integers, Sequences, FiniteSets, TLC

VARIABLES
    \* GPSWebTracker fields
    gps_data,               \* dict sender -> list of points   (line 39)
    latest_positions,       \* dict sender -> latest point     (line 40)
    max_points_per_sender,  \* retention cap                   (line 45)
    target_sender,          \* sender filter, or Absent         (line 33)
    data_lock,              \* holder of threading.Lock, or "free" (line 41)
    running,                \* self.running                    (line 36)
    connected,              \* self.connected                  (line 35)
    socket,                 \* "none" | "unconnected" | "open" | "closed"
    socketio,               \* TRUE once create_app has installed it
    host,                   \* self.host                       (line 31)
    port,                   \* self.port                       (line 32)
    \* the process: os.environ, the attributes of class Config, and the
    \* options cli.py was started with
    environ,
    Config,
    args,
    \* the SQLite table gps_points, in insertion (rowid) order
    db,
    \* control state of the threads
    main_pc,                \* cli.py and main(): construction, connect, serve,
                            \* disconnect
    listen_pc,              \* the listen thread
    web_pc,                 \* the web request thread
    \* locals of load_historical_data / listen / store_gps_data
    rows,                   \* rows fetched by load_historical_data
    buffer,                 \* listen's text buffer
    gps_points,             \* the batch being stored
    point_idx,              \* position of store_gps_data's for loop
    \* the environment: bytes the server has still to send
    wire,
    \* history variables (not program state)
    arrived,                \* every point installed in memory, in order
    delivered,              \* the bytes recv has returned, in order
    emitted,                \* xml messages the framer has cut out, in order
    published,              \* the events handed to socketio.emit
    parsed,                 \* number of messages given to parse_gps_data
    rejected,               \* number of points dropped by the range check
    stop_seen               \* listen saw running = FALSE at its loop head

vars == << gps_data, latest_positions, max_points_per_sender, target_sender,
           parsed, rejected, data_lock,
           running, connected, socket, socketio, db, main_pc, listen_pc,
           web_pc, rows, buffer, gps_points, point_idx, wire, arrived,
           delivered, emitted, published, stop_seen,
           host, port, environ, Config, args >>

----------------------------------------------------------------------------
(* Bounds of the model *)

\* largest retention cap tried (Config.validate admits any cap >= 1)
MaxCap == 2
\* largest number of rows in the database at start-up (store specification)
MaxRows == 3
\* largest batch handed to store_gps_data in one call (store specification)
MaxBatch == 2
\* largest number of points appended after start-up (store specification)
MaxAppended == 2
\* largest number of messages processed (extraction specification)
MaxMessages == 2
\* the pieces a stream of the framing specification is made of
MaxPieces == 3

----------------------------------------------------------------------------
(* Python values *)

Absent == "None"
Missing == << >>
Some(v) == << v >>

\* floats
F(n) == [nan |-> FALSE, v |-> n]
NaN == [nan |-> TRUE, v |-> 0]
\* a <= b on floats: every comparison with NaN is false
FloatLeq(a, b) == ~a.nan /\ ~b.nan /\ a.v <= b.v

Senders == {"s1", "s2"}
Times == {"t1", "t2"}

\* string comparison of sender identifiers and of timestamps (SQL ORDER BY)
SenderRank(s) == IF s = "s1" THEN 1 ELSE 2
TimeRank(t) == IF t = "t1" THEN 1 ELSE 2

\* Python truthiness of a str-or-None value
Truthy(x) == x # Absent /\ x # ""

Last(seq) == seq[Len(seq)]

\* list[-n:] for a Python list and an int n
PyNegSlice(list, n) ==
    IF n > 0
    THEN IF n >= Len(list) THEN list
         ELSE SubSeq(list, Len(list) - n + 1, Len(list))
    ELSE IF n = 0 THEN list
    ELSE SubSeq(list, (0 - n) + 1, Len(list))

(* dicts in insertion order *)
DictKeys(d) == {d[i].k : i \in 1..Len(d)}
DictHas(d, key) == \E i \in 1..Len(d) : d[i].k = key
DictIndex(d, key) == CHOOSE i \in 1..Len(d) : d[i].k = key
DictGet(d, key) == d[DictIndex(d, key)].v
\* d[key] = value: an existing key keeps its position
DictSet(d, key, value) ==
    IF DictHas(d, key)
    THEN [d EXCEPT ![DictIndex(d, key)] = [k |-> key, v |-> value]]
    ELSE Append(d, [k |-> key, v |-> value])
\* defaultdict(list)[key] used as a value: the list, [] when the key is new
DefaultGet(d, key) == IF DictHas(d, key) THEN DictGet(d, key) ELSE << >>

----------------------------------------------------------------------------
(* The persistence table and its conversions *)

\* _store_to_database's INSERT tuple for one point
RowOfPoint(p) ==
    [sender    |-> p.sender,
     latitude  |-> p.lat,
     longitude |-> p.lng,
     altitude  |-> p.altitude,
     timestamp |-> p.timestamp,
     emergency |-> IF p.emergency = Missing THEN Some(0)
                   ELSE IF p.emergency[1] THEN Some(1) ELSE Some(0)]

\* the point dict load_historical_data builds from one row
PointOfRow(row) ==
    [sender    |-> row.sender,
     lat       |-> row.latitude,
     lng       |-> row.longitude,
     altitude  |-> row.altitude,
     timestamp |-> row.timestamp,
     emergency |-> IF row.emergency # Missing
                   THEN Some(row.emergency[1] # 0) ELSE Some(FALSE)]

\* the table's NOT NULL columns
RowAdmissible(row) ==
    /\ row.sender # Absent
    /\ row.timestamp # Absent

\* _store_to_database: all rows are committed together, or none is
StoreToDatabase(table, points, ok) ==
    LET new == [i \in 1..Len(points) |-> RowOfPoint(points[i])]
    IN IF ok /\ \A i \in 1..Len(new) : RowAdmissible(new[i])
       THEN table \o new
       ELSE table

\* ORDER BY sender, timestamp
RowLeq(a, b) ==
    \/ SenderRank(a.sender) < SenderRank(b.sender)
    \/ a.sender = b.sender /\ TimeRank(a.timestamp) <= TimeRank(b.timestamp)

IsOrdered(rs) == \A i \in 1..Len(rs) - 1 : RowLeq(rs[i], rs[i + 1])

\* the results the SELECT may return: the table's rows in every order that
\* ORDER BY sender, timestamp allows (ties are in no particular order)
SelectOrdered(table) ==
    LET n == Len(table)
        perms == {f \in [1..n -> 1..n] : \A i, j \in 1..n : f[i] = f[j] => i = j}
    IN {rs \in {[i \in 1..n |-> table[f[i]]] : f \in perms} : IsOrdered(rs)}

----------------------------------------------------------------------------
(* The history store *)

\* line 317: self.gps_data[sender].append(point)
AppendPoint(gd, point) ==
    DictSet(gd, point.sender, Append(DefaultGet(gd, point.sender), point))

\* a slip in the slice: list[:cap] keeps the oldest points
LimitPointsKeepOldest(gd, sender, cap) ==
    IF Len(DictGet(gd, sender)) > cap
    THEN DictSet(gd, sender, SubSeq(DictGet(gd, sender), 1, cap))
    ELSE gd

\* lines 320-321: the cap on one sender's list
LimitPoints(gd, sender, cap) ==
    IF Len(DictGet(gd, sender)) > cap
    THEN DictSet(gd, sender, PyNegSlice(DictGet(gd, sender), cap))
    ELSE gd

\* a slip: setdefault keeps the first point seen for a sender
SetLatestIfNew(lp, point) ==
    IF DictHas(lp, point.sender) THEN lp ELSE DictSet(lp, point.sender, point)

\* line 324: self.latest_positions[sender] = point
SetLatest(lp, point) == DictSet(lp, point.sender, point)

\* one iteration of store_gps_data's for loop (lines 313-324)
StorePoint(st, point, cap) ==
    [gps_data |-> LimitPoints(AppendPoint(st.gps_data, point), point.sender, cap),
     latest_positions |-> SetLatest(st.latest_positions, point)]

RECURSIVE StoreLoop(_, _, _, _)
StoreLoop(st, points, i, cap) ==
    IF i > Len(points) THEN st
    ELSE StoreLoop(StorePoint(st, points[i], cap), points, i + 1, cap)

\* a slip: the latest position is set once, after the loop, from the last
\* point of the batch
StoreInMemoryLatestAfterLoop(st, points, cap) ==
    LET done == StoreLoop(st, points, 1, cap)
    IN IF points = << >> THEN st
       ELSE [gps_data |-> done.gps_data,
             latest_positions |-> SetLatest(st.latest_positions, Last(points))]

\* the in-memory part of store_gps_data (lines 309-324)
StoreInMemory(st, points, cap) == StoreLoop(st, points, 1, cap)

\* a slip: the run is installed without the cap
InstallRunUnlimited(acc, cap) ==
    IF ~(Truthy(acc.current_sender) /\ acc.points_for_sender # << >>)
    THEN acc
    ELSE [acc EXCEPT !.gps_data = DictSet(acc.gps_data, acc.current_sender,
                                          acc.points_for_sender),
                     !.latest_positions =
                         DictSet(acc.latest_positions, acc.current_sender,
                                 Last(acc.points_for_sender))]

\* lines 120-124 and 143-147: install the run collected for current_sender
InstallRun(acc, cap) ==
    IF ~(Truthy(acc.current_sender) /\ acc.points_for_sender # << >>)
    THEN acc
    ELSE LET pts == IF Len(acc.points_for_sender) > cap
                    THEN PyNegSlice(acc.points_for_sender, cap)
                    ELSE acc.points_for_sender
             gd == DictSet(acc.gps_data, acc.current_sender, pts)
         IN IF pts = << >>
            THEN \* points_for_sender[-1] raises IndexError
                 [acc EXCEPT !.gps_data = gd, !.failed = TRUE]
            ELSE [acc EXCEPT !.gps_data = gd,
                             !.latest_positions =
                                 DictSet(acc.latest_positions,
                                         acc.current_sender, Last(pts))]

RECURSIVE LoadLoop(_, _, _, _)
LoadLoop(acc, rs, i, cap) ==
    IF acc.failed THEN acc
    ELSE IF i > Len(rs) THEN InstallRun(acc, cap)
    ELSE LET sender == rs[i].sender
             a1 == IF acc.current_sender # sender
                   THEN [InstallRun(acc, cap) EXCEPT
                            !.current_sender = sender,
                            !.points_for_sender = << >>]
                   ELSE acc
             a2 == [a1 EXCEPT !.points_for_sender =
                                  Append(@, PointOfRow(rs[i]))]
         IN IF a1.failed THEN a1 ELSE LoadLoop(a2, rs, i + 1, cap)

\* load_historical_data applied to the fetched rows (lines 115-147)
LoadRows(st, rs, cap) ==
    LET acc == LoadLoop([gps_data |-> st.gps_data,
                         latest_positions |-> st.latest_positions,
                         current_sender |-> Absent,
                         points_for_sender |-> << >>,
                         failed |-> FALSE], rs, 1, cap)
    IN [gps_data |-> acc.gps_data, latest_positions |-> acc.latest_positions]

EmptyStore == [gps_data |-> << >>, latest_positions |-> << >>]
Store == [gps_data |-> gps_data, latest_positions |-> latest_positions]


----------------------------------------------------------------------------
(* The report extractor.  A parsed message is a tree of elements           *)
(* [tag, text, children]; find and findall look at direct children.        *)

Elem(tag, text, children) == [tag |-> tag, text |-> text, children |-> children]

\* element.find(tag): Missing, or Some(first child with that tag)
Find(e, tag) ==
    LET hits == {i \in 1..Len(e.children) : e.children[i].tag = tag}
    IN IF hits = {} THEN Missing
       ELSE Some(e.children[CHOOSE i \in hits : \A j \in hits : i <= j])

\* element.findall(tag)
FindAll(e, tag) == SelectSeq(e.children, LAMBDA c : c.tag = tag)

\* float(text): [ok, val]; ok is FALSE where float() raises ValueError (not
\* a number) or TypeError (text is None)
ParseFloat(text) ==
    CASE text = "0"       -> [ok |-> TRUE, val |-> F(0)]
      [] text = "90"      -> [ok |-> TRUE, val |-> F(9000)]
      [] text = "90.01"   -> [ok |-> TRUE, val |-> F(9001)]
      [] text = "-90"     -> [ok |-> TRUE, val |-> F(-9000)]
      [] text = "-90.01"  -> [ok |-> TRUE, val |-> F(-9001)]
      [] text = "180"     -> [ok |-> TRUE, val |-> F(18000)]
      [] text = "180.01"  -> [ok |-> TRUE, val |-> F(18001)]
      [] text = "-180"    -> [ok |-> TRUE, val |-> F(-18000)]
      [] text = "-180.01" -> [ok |-> TRUE, val |-> F(-18001)]
      [] text = "nan"     -> [ok |-> TRUE, val |-> NaN]
      [] OTHER            -> [ok |-> FALSE, val |-> NaN]

\* a slip: the upper limits are not checked
CoordinatesValidLowerOnly(lat, lng) ==
    FloatLeq(F(-9000), lat) /\ FloatLeq(F(-18000), lng)

\* line 259: -90 <= lat <= 90 and -180 <= lng <= 180
CoordinatesValid(lat, lng) ==
    /\ FloatLeq(F(-9000), lat) /\ FloatLeq(lat, F(9000))
    /\ FloatLeq(F(-18000), lng) /\ FloatLeq(lng, F(18000))

\* the optional fields of lines 273-299 that the model keeps
OptionalAltitude(element) ==
    LET elem == Find(element, "alt")
    IN IF elem = Missing THEN Missing
       ELSE IF ParseFloat(elem[1].text).ok
            THEN Some(ParseFloat(elem[1].text).val)
            ELSE Missing

\* a slip: any emer element sets the flag
OptionalEmergencyAnyText(element) ==
    LET elem == Find(element, "emer")
    IN IF elem = Missing THEN Missing ELSE Some(TRUE)

\* lines 296-297: gps_point['emergency'] = elem.text == '1'
OptionalEmergency(element) ==
    LET elem == Find(element, "emer")
    IN IF elem = Missing THEN Missing ELSE Some(elem[1].text = "1")

\* _extract_gps_point: Missing for None, or Some(point)
ExtractGpsPoint(element, sender, timestamp) ==
    LET lat_elem == Find(element, "lat")
        lng_elem == Find(element, "lng")
    IN IF lat_elem = Missing \/ lng_elem = Missing THEN Missing
       ELSE LET lat == ParseFloat(lat_elem[1].text)
                lng == ParseFloat(lng_elem[1].text)
            IN IF ~lat.ok \/ ~lng.ok THEN Missing
               ELSE IF ~CoordinatesValid(lat.val, lng.val) THEN Missing
               ELSE Some([sender    |-> sender,
                          timestamp |-> timestamp,
                          lat       |-> lat.val,
                          lng       |-> lng.val,
                          altitude  |-> OptionalAltitude(element),
                          emergency |-> OptionalEmergency(element)])

\* lines 217-221
ReportTypes ==
    << "nalGpsReport3", "nalGpsReport4", "nalGpsReport5", "nalGpsReport6",
       "nalGpsReport7", "nal10ByteGpsReport0", "pecosP3GpsReport",
       "pecosP4GpsReport" >>

\* line 226
CollectionTypes == {"nalGpsReport3", "nalGpsReport4"}

\* a slip: the scan goes on with the report types that follow (no break)
RECURSIVE CandidatesNoBreak(_, _)
CandidatesNoBreak(root, t) ==
    IF t > Len(ReportTypes) THEN << >>
    ELSE LET report == Find(root, ReportTypes[t])
         IN IF report = Missing THEN CandidatesNoBreak(root, t + 1)
            ELSE (IF ReportTypes[t] \in CollectionTypes
                  THEN FindAll(report[1], "point")
                  ELSE report) \o CandidatesNoBreak(root, t + 1)

\* lines 223-238: the elements _extract_gps_point is called on, taken from
\* the first report type of the list that the message holds
RECURSIVE Candidates(_, _)
Candidates(root, t) ==
    IF t > Len(ReportTypes) THEN << >>
    ELSE LET report == Find(root, ReportTypes[t])
         IN IF report = Missing THEN Candidates(root, t + 1)
            ELSE IF ReportTypes[t] \in CollectionTypes
                 THEN FindAll(report[1], "point")
                 ELSE report

\* a slip: the scan of a collection ends at the first point that gives no
\* record
RECURSIVE ExtractAllStopAtInvalid(_, _, _, _)
ExtractAllStopAtInvalid(points, i, sender, timestamp) ==
    IF i > Len(points) THEN << >>
    ELSE LET gps_point == ExtractGpsPoint(points[i], sender, timestamp)
         IN IF gps_point = << >> THEN << >>
            ELSE gps_point \o ExtractAllStopAtInvalid(points, i + 1, sender,
                                                      timestamp)

\* lines 229-237: the candidates that extract, in document order
RECURSIVE ExtractAll(_, _, _, _)
ExtractAll(points, i, sender, timestamp) ==
    IF i > Len(points) THEN << >>
    ELSE ExtractGpsPoint(points[i], sender, timestamp)
             \o ExtractAll(points, i + 1, sender, timestamp)

ScanReports(root, sender, timestamp) ==
    ExtractAll(Candidates(root, 1), 1, sender, timestamp)

\* a result of ET.fromstring: a tree, or the failure to parse
ParseError == [tag |-> "ParseError", text |-> Absent, children |-> << >>]

\* a slip: the target sender is not compared
ParseGpsDataUnfiltered(root, target) ==
    IF root = ParseError \/ Find(root, "meta") = Missing
       \/ Find(Find(root, "meta")[1], "sender") = Missing
    THEN [none |-> TRUE, points |-> << >>]
    ELSE LET meta == Find(root, "meta")[1]
         IN [none |-> FALSE,
             points |-> ScanReports(root, Find(meta, "sender")[1].text,
                                    IF Find(meta, "time") # Missing
                                    THEN Find(meta, "time")[1].text
                                    ELSE Absent)]

\* parse_gps_data on the tree of a message: [none, points]; none marks the
\* return value None
ParseGpsData(root, target) ==
    IF root = ParseError THEN [none |-> TRUE, points |-> << >>]
    ELSE LET meta == Find(root, "meta")
         IN IF meta = Missing THEN [none |-> TRUE, points |-> << >>]
            ELSE LET sender_elem == Find(meta[1], "sender")
                     time_elem == Find(meta[1], "time")
                 IN IF sender_elem = Missing
                    THEN [none |-> TRUE, points |-> << >>]
                    ELSE LET sender == sender_elem[1].text
                             timestamp == IF time_elem # Missing
                                          THEN time_elem[1].text ELSE Absent
                         IN IF Truthy(target) /\ sender # target
                            THEN [none |-> TRUE, points |-> << >>]
                            ELSE [none |-> FALSE,
                                  points |-> ScanReports(root, sender,
                                                         timestamp)]

----------------------------------------------------------------------------
(* The summarizer: get_sender_summary and _calculate_altitude_trend.       *)
(* Altitudes are floats in hundredths of a metre.                          *)

\* a - b, a > b and a < b on floats
FloatSub(a, b) == IF a.nan \/ b.nan THEN NaN ELSE F(a.v - b.v)
FloatGt(a, b) == ~a.nan /\ ~b.nan /\ a.v > b.v
FloatLt(a, b) == ~a.nan /\ ~b.nan /\ a.v < b.v

\* round(x, 1) on hundredths: the nearest tenth, a value halfway between two
\* tenths going to the even one
Round1(n) ==
    LET q == n \div 10
        r == n % 10
    IN IF r < 5 THEN 10 * q
       ELSE IF r > 5 THEN 10 * (q + 1)
       ELSE IF q % 2 = 0 THEN 10 * q ELSE 10 * (q + 1)

RoundFloat(x) == IF x.nan THEN NaN ELSE F(Round1(x.v))

\* a slip: the whole history is looked at
RecentPointsAll(points) == points

\* line 612: points[-5:] if len(points) >= 5 else points
RecentPoints(points) ==
    IF Len(points) >= 5 THEN PyNegSlice(points, 5) ELSE points

\* lines 613-618: the altitudes of the recent points that are not None
AltitudesOf(recent_points) ==
    LET with_alt == SelectSeq(recent_points, LAMBDA point : point.altitude # Missing)
    IN [i \in 1..Len(with_alt) |-> with_alt[i].altitude[1]]

\* the threshold of line 629, 5.0 metres
Threshold == F(500)

\* _calculate_altitude_trend(points), lines 592-640
CalculateAltitudeTrend(points) ==
    LET result == [current_altitude |-> Missing, trend |-> "stable",
                   change |-> F(0)]
    IN IF points = << >> THEN result
       ELSE LET current_alt == Last(points).altitude
                with_current ==
                    IF current_alt # Missing
                    THEN [result EXCEPT !.current_altitude =
                                            Some(RoundFloat(current_alt[1]))]
                    ELSE result
            IN IF Len(points) < 2 THEN with_current
               ELSE LET altitudes == AltitudesOf(RecentPoints(points))
                    IN IF Len(altitudes) < 2 THEN with_current
                       ELSE LET altitude_change ==
                                    FloatSub(Last(altitudes), altitudes[1])
                            IN [with_current EXCEPT
                                  !.change = RoundFloat(altitude_change),
                                  !.trend =
                                     IF FloatGt(altitude_change, Threshold)
                                     THEN "rising"
                                     ELSE IF FloatLt(altitude_change,
                                                     FloatSub(F(0), Threshold))
                                          THEN "falling" ELSE "stable"]

\* one entry of the summary (lines 576-589)
SummaryOf(points) ==
    LET latest == Last(points)
        altitude_info == CalculateAltitudeTrend(points)
    IN [total_points |-> Len(points),
        latest_position |-> << latest.lat, latest.lng >>,
        latest_time |-> latest.timestamp,
        emergency_active |-> IF latest.emergency # Missing
                             THEN latest.emergency[1] ELSE FALSE,
        altitude |-> altitude_info.current_altitude,
        altitude_trend |-> altitude_info.trend,
        altitude_change |-> altitude_info.change]

\* get_sender_summary() on the history store: a dict with one entry for
\* every sender whose history is not empty, in the order of gps_data
GetSenderSummary(data) ==
    LET filled == SelectSeq(data, LAMBDA entry : entry.v # << >>)
    IN [i \in 1..Len(filled) |-> [k |-> filled[i].k,
                                  v |-> SummaryOf(filled[i].v)]]

\* create_map_html(center_on_latest=True), lines 369-372: map_center for a
\* latest_positions that is not empty
MapCenter(positions) == << Last(positions).v.lat, Last(positions).v.lng >>

\* the event of lines 330-334
GpsUpdate(points, data) ==
    [points |-> points, sender_summary |-> GetSenderSummary(data)]

----------------------------------------------------------------------------
(* Configuration: config.py and cli.py.  Numerals are texts of digits.     *)

Digits == << "0", "1", "2", "3", "4", "5", "6", "7", "8", "9" >>
DigitVal(c) == (CHOOSE d \in 1..10 : Digits[d] = c) - 1

\* str(n) for an int
RECURSIVE StrNat(_)
StrNat(n) ==
    IF n < 10 THEN << Digits[n + 1] >>
    ELSE StrNat(n \div 10) \o << Digits[(n % 10) + 1] >>
PyStr(n) == IF n < 0 THEN << "-" >> \o StrNat(0 - n) ELSE StrNat(n)

\* int(text) for a numeral
RECURSIVE IntNat(_)
IntNat(text) ==
    IF text = << >> THEN 0
    ELSE 10 * IntNat(SubSeq(text, 1, Len(text) - 1)) + DigitVal(Last(text))
PyInt(text) == IF Head(text) = "-" THEN 0 - IntNat(Tail(text)) ELSE IntNat(text)

\* os.environ.get(key, default) on the variables config.py reads
EnvGet(value, default) == IF value = Absent THEN default ELSE value

\* the class body of Config (config.py, lines 10-19), run once when the
\* module is imported; int() of the default is the default
ImportConfig(env) ==
    [GPS_HOST |-> EnvGet(env.GPS_HOST, "localhost"),
     GPS_PORT |-> IF env.GPS_PORT = Absent THEN 2223 ELSE PyInt(env.GPS_PORT),
     WEB_PORT |-> IF env.WEB_PORT = Absent THEN 5000 ELSE PyInt(env.WEB_PORT),
     TARGET_SENDER |-> EnvGet(env.TARGET_SENDER, Absent),
     MAX_POINTS_PER_SENDER |-> IF env.MAX_POINTS_PER_SENDER = Absent THEN 1000
                               ELSE PyInt(env.MAX_POINTS_PER_SENDER)]

\* a slip: the web port is not checked
ValidateSkipsWebPort(cls) ==
    IF cls.GPS_PORT < 1 \/ cls.GPS_PORT > 65535 THEN "ValueError"
    ELSE IF cls.MAX_POINTS_PER_SENDER < 1 THEN "ValueError"
    ELSE "True"

\* Config.validate(), lines 34-40: "True", or "ValueError"
Validate(cls) ==
    IF cls.GPS_PORT < 1 \/ cls.GPS_PORT > 65535 THEN "ValueError"
    ELSE IF cls.WEB_PORT < 1 \/ cls.WEB_PORT > 65535 THEN "ValueError"
    ELSE IF cls.MAX_POINTS_PER_SENDER < 1 THEN "ValueError"
    ELSE "True"

\* no option given to cli.py
NoArgs == [gps_host |-> Absent, gps_port |-> Missing, web_port |-> Missing,
           target_sender |-> Absent, max_points |-> Missing,
           check_config |-> FALSE]

\* a tracker built by GPSWebTracker() in a process that was started with
\* its settings in the environment and without options
DirectRun ==
    /\ args = NoArgs
    /\ environ = [GPS_HOST |-> Absent, GPS_PORT |-> Absent, WEB_PORT |-> Absent,
                  TARGET_SENDER |-> target_sender,
                  MAX_POINTS_PER_SENDER |-> PyStr(max_points_per_sender)]
    /\ Config = ImportConfig(environ)
    /\ host = Config.GPS_HOST
    /\ port = Config.GPS_PORT

----------------------------------------------------------------------------
(* Start-up: GPSWebTracker.__init__ runs load_historical_data before any   *)
(* other thread holds a reference to the tracker (main, lines 711-724).    *)

trackerVars == << data_lock, running, connected, socket, socketio >>
listenVars == << listen_pc, buffer, gps_points, point_idx, wire, delivered,
                 emitted, published, parsed, rejected, stop_seen >>
storeVars == << gps_data, latest_positions, arrived >>
configVars == << max_points_per_sender, target_sender, host, port, environ,
                 Config, args >>

\* the state __init__ sets up before load_historical_data (lines 31-60)
InitTracker ==
    /\ gps_data = << >>
    /\ latest_positions = << >>
    /\ data_lock = "free"
    /\ running = FALSE
    /\ connected = FALSE
    /\ socket = "none"
    /\ socketio = FALSE
    /\ main_pc = "construct"
    /\ listen_pc = "not_started"
    /\ web_pc = "idle"
    /\ rows = << >>
    /\ buffer = << >>
    /\ gps_points = << >>
    /\ point_idx = 1
    /\ arrived = << >>
    /\ delivered = << >>
    /\ emitted = << >>
    /\ published = << >>
    /\ parsed = 0
    /\ rejected = 0
    /\ stop_seen = FALSE

\* lines 106-114: the SELECT ... ORDER BY sender, timestamp
LoadFetch ==
    /\ main_pc = "construct"
    /\ \E rs \in SelectOrdered(db) : rows' = rs
    /\ main_pc' = "loading"
    /\ UNCHANGED << storeVars, configVars, db, trackerVars,
                    listenVars, web_pc >>

\* lines 151-152: sqlite3 raises; nothing is loaded
LoadFetchError ==
    /\ main_pc = "construct"
    /\ main_pc' = "constructed"
    /\ UNCHANGED << storeVars, configVars, db, trackerVars,
                    listenVars, web_pc, rows >>

\* lines 115-148: the rows are grouped and installed (no lock is taken)
LoadInstall ==
    /\ main_pc = "loading"
    /\ LET st == LoadRows(Store, rows, max_points_per_sender)
       IN /\ gps_data' = st.gps_data
          /\ latest_positions' = st.latest_positions
    /\ arrived' = arrived \o [i \in 1..Len(rows) |-> PointOfRow(rows[i])]
    /\ main_pc' = "constructed"
    /\ UNCHANGED << configVars, db, trackerVars, listenVars,
                    web_pc, rows >>

----------------------------------------------------------------------------
(* The store specification: a constructed tracker whose store_gps_data is  *)
(* called directly, one call at a time.                                    *)

\* the points of the store specification
StorePoints ==
    [sender : Senders, timestamp : Times, lat : {F(0)}, lng : {F(0)},
     altitude : {Missing}, emergency : {Missing}]

RECURSIVE SeqsUpTo(_, _)
SeqsUpTo(S, n) ==
    IF n = 0 THEN {<< >>}
    ELSE LET shorter == SeqsUpTo(S, n - 1)
         IN shorter \cup {Append(q, x) : q \in {r \in shorter : Len(r) = n - 1},
                                          x \in S}

\* the points handed to store_gps_data: two of sender s1, one of sender s2
AppendPoints == {p \in StorePoints : p.sender = "s1" \/ p.timestamp = "t2"}

Batches == SeqsUpTo(AppendPoints, MaxBatch)

InitStore ==
    /\ InitTracker
    /\ max_points_per_sender \in 1..MaxCap
    /\ target_sender = Absent
    /\ db \in SeqsUpTo({RowOfPoint(p) : p \in StorePoints}, MaxRows)
    /\ wire = << >>
    /\ DirectRun

\* a slip: an empty list is not returned early
StoreGpsDataOfAnyList(points, db_ok, emit_ok) ==
    /\ LET st == StoreInMemory(Store, points, max_points_per_sender)
       IN /\ gps_data' = st.gps_data
          /\ latest_positions' = st.latest_positions
    /\ arrived' = arrived \o points
    /\ db' = StoreToDatabase(db, points, db_ok)
    /\ published' = IF socketio /\ emit_ok
                    THEN Append(published, GpsUpdate(points, gps_data'))
                    ELSE published

\* store_gps_data(points) as one step of a single caller (lines 307-336)
StoreGpsData(points, db_ok, emit_ok) ==
    IF points = << >>
    THEN UNCHANGED << storeVars, db, published >>
    ELSE /\ LET st == StoreInMemory(Store, points, max_points_per_sender)
            IN /\ gps_data' = st.gps_data
               /\ latest_positions' = st.latest_positions
         /\ arrived' = arrived \o points
         /\ db' = StoreToDatabase(db, points, db_ok)
         /\ published' = IF socketio /\ emit_ok
                         THEN Append(published, GpsUpdate(points, gps_data'))
                         ELSE published

StoreCall ==
    /\ main_pc = "constructed"
    /\ \E points \in Batches, db_ok \in BOOLEAN :
          /\ Len(arrived) - Len(rows) + Len(points) <= MaxAppended
          /\ StoreGpsData(points, db_ok, TRUE)
    /\ UNCHANGED << configVars, trackerVars, main_pc, listen_pc,
                    web_pc, rows, buffer, gps_points, point_idx, wire,
                    delivered, emitted, parsed, rejected, stop_seen >>

NextStore == LoadFetch \/ LoadFetchError \/ LoadInstall \/ StoreCall

SpecStore == InitStore /\ [][NextStore]_vars

----------------------------------------------------------------------------
(* Text: Python str operations, with Python's 0-based positions *)

OpenTag == << "<", "d", "a", "t", "a", ">" >>
CloseTag == << "<", "/", "d", "a", "t", "a", ">" >>

\* pat in text
StrContains(text, pat) ==
    \E i \in 0..(Len(text) - Len(pat)) : SubSeq(text, i + 1, i + Len(pat)) = pat

\* text.find(pat, from): the lowest position >= from where pat starts, or -1
StrFind(text, pat, from) ==
    LET hits == {i \in from..(Len(text) - Len(pat)) :
                    SubSeq(text, i + 1, i + Len(pat)) = pat}
    IN IF hits = {} THEN -1
       ELSE CHOOSE i \in hits : \A j \in hits : i <= j

\* text[a:b] and text[a:] for 0 <= a <= b <= len(text)
StrSlice(text, a, b) == SubSeq(text, a + 1, b)
StrFrom(text, a) == SubSeq(text, a + 1, Len(text))

\* bytes.decode('utf-8', errors='ignore') over the bytes of the model: the
\* ASCII bytes, and the two bytes C3 A9 of the character U+00E9.  A lead
\* byte without its continuation byte and a continuation byte without its
\* lead are dropped.
RECURSIVE Decode(_)
Decode(bytes) ==
    IF bytes = << >> THEN << >>
    ELSE IF bytes[1] = "C3"
         THEN IF Len(bytes) >= 2 /\ bytes[2] = "A9"
              THEN << "E9" >> \o Decode(SubSeq(bytes, 3, Len(bytes)))
              ELSE Decode(Tail(bytes))
    ELSE IF bytes[1] = "A9" THEN Decode(Tail(bytes))
    ELSE << bytes[1] >> \o Decode(Tail(bytes))

----------------------------------------------------------------------------
(* The messages of the stream.  Between the tags of the envelope a         *)
(* character stands for the markup it abbreviates: x for the meta section  *)
(* of sender s1 and a nalGpsReport3 with two points, y for the meta        *)
(* section of sender s2 and a nalGpsReport5, and so on (Markup); E9 is     *)
(* character data, and a "<" stays the start of a tag that never ends.     *)

LatLng(lat, lng) == << Elem("lat", lat, << >>), Elem("lng", lng, << >>) >>

Meta(sender, time) ==
    Elem("meta", Absent, << Elem("sender", sender, << >>),
                            Elem("time", time, << >>) >>)

\* one valid report element
Report5 == Elem("nalGpsReport5", Absent, LatLng("0", "0"))

Markup(c) ==
    CASE c = "x" -> << Meta("s1", "t1"),
                       Elem("nalGpsReport3", Absent,
                            << Elem("point", Absent, LatLng("90", "-180")),
                               Elem("point", Absent, LatLng("-90", "180")) >>) >>
      [] c = "y" -> << Meta("s2", "t2"), Report5 >>
      \* no meta section
      [] c = "n" -> << Report5 >>
      \* a meta section without sender element
      [] c = "m" -> << Elem("meta", Absent, << Elem("time", "t1", << >>) >>),
                       Report5 >>
      \* a sender element without text
      [] c = "e" -> << Meta(Absent, "t1"), Report5 >>
      \* a meta section without time element
      [] c = "u" -> << Elem("meta", Absent, << Elem("sender", "s1", << >>) >>),
                       Report5 >>
      \* a collection of five points, the three in the middle not usable
      [] c = "c" -> << Meta("s1", "t1"),
                       Elem("nalGpsReport3", Absent,
                            << Elem("point", Absent, LatLng("90", "-180")),
                               Elem("point", Absent, LatLng("90.01", "0")),
                               Elem("point", Absent, << Elem("lat", "0", << >>) >>),
                               Elem("point", Absent, LatLng("abc", "0")),
                               Elem("point", Absent, LatLng("-90", "180")) >>) >>
      \* a collection of three points, the first not usable
      [] c = "d" -> << Meta("s2", "t2"),
                       Elem("nalGpsReport4", Absent,
                            << Elem("point", Absent, LatLng("0", "nan")),
                               Elem("point", Absent, LatLng("-90", "180")),
                               Elem("point", Absent, LatLng("90", "-180")) >>) >>
      \* two report types, the later of the list first in the document and
      \* alone with a valid point
      [] c = "p" -> << Meta("s1", "t1"),
                       Elem("pecosP3GpsReport", Absent, LatLng("0", "0")),
                       Elem("nalGpsReport4", Absent,
                            << Elem("point", Absent, LatLng("90.01", "0")) >>) >>
      \* two report types with valid points
      [] c = "q" -> << Meta("s1", "t1"),
                       Elem("nalGpsReport6", Absent, LatLng("90", "-180")),
                       Elem("nalGpsReport3", Absent,
                            << Elem("point", Absent, LatLng("-90", "180")) >>) >>
      \* a collection whose first point has the emer text 1 and whose last
      \* point has the emer text true
      [] c = "a" -> << Meta("s1", "t1"),
                       Elem("nalGpsReport3", Absent,
                            << Elem("point", Absent,
                                    LatLng("90", "-180")
                                        \o << Elem("emer", "1", << >>) >>),
                               Elem("point", Absent,
                                    LatLng("-90", "180")
                                        \o << Elem("emer", "true", << >>) >>) >>) >>
      \* a point with the emer text 1
      [] c = "b" -> << Meta("s1", "t1"),
                       Elem("nalGpsReport5", Absent,
                            LatLng("0", "0") \o << Elem("emer", "1", << >>) >>) >>
      [] OTHER   -> << >>

RECURSIVE Children(_)
Children(body) ==
    IF body = << >> THEN << >> ELSE Markup(body[1]) \o Children(Tail(body))

\* ET.fromstring(xml_message): the envelope's tree, or ParseError when a
\* "<" is left inside the envelope
ParseXml(xml) ==
    LET body == StrSlice(xml, Len(OpenTag), Len(xml) - Len(CloseTag))
    IN IF \E i \in 1..Len(body) : body[i] = "<"
       THEN ParseError
       ELSE Elem("data", Absent, Children(body))

\* the candidates of a message that parse as floats and fail line 259
RejectedIn(root, target) ==
    IF ParseGpsData(root, target).none THEN 0
    ELSE Cardinality({i \in 1..Len(Candidates(root, 1)) :
            LET e == Candidates(root, 1)[i]
            IN /\ Find(e, "lat") # Missing /\ Find(e, "lng") # Missing
               /\ ParseFloat(Find(e, "lat")[1].text).ok
               /\ ParseFloat(Find(e, "lng")[1].text).ok
               /\ ~CoordinatesValid(ParseFloat(Find(e, "lat")[1].text).val,
                                    ParseFloat(Find(e, "lng")[1].text).val)})

----------------------------------------------------------------------------
(* main(): create_app, connect, the listen thread, disconnect *)

\* lines 713 and 652-653
CreateApp ==
    /\ main_pc = "constructed"
    /\ socketio' = TRUE
    /\ main_pc' = "connect"
    /\ UNCHANGED << storeVars, configVars, db, data_lock, running, connected,
                    socket, listenVars, web_pc, rows >>

\* connect(), lines 157-162
ConnectOk ==
    /\ main_pc = "connect"
    /\ socket' = "open"
    /\ connected' = TRUE
    /\ main_pc' = "start_thread"
    /\ UNCHANGED << storeVars, configVars, db, data_lock, running, socketio,
                    listenVars, web_pc, rows >>

\* a slip: the thread is started although connect() has failed
ConnectFailStartsThread ==
    /\ main_pc = "connect"
    /\ socket' = "unconnected"
    /\ main_pc' = "start_thread"
    /\ UNCHANGED << storeVars, configVars, db, data_lock, running, connected,
                    socketio, listenVars, web_pc, rows >>

\* connect(), lines 157-159 and 163-165: the socket object exists, the
\* connection does not
ConnectFail ==
    /\ main_pc = "connect"
    /\ socket' = "unconnected"
    /\ main_pc' = "serve"
    /\ UNCHANGED << storeVars, configVars, db, data_lock, running, connected,
                    socketio, listenVars, web_pc, rows >>

\* lines 722-724
StartThread ==
    /\ main_pc = "start_thread"
    /\ listen_pc' = "start"
    /\ main_pc' = "serve"
    /\ UNCHANGED << storeVars, configVars, db, trackerVars, web_pc, rows,
                    buffer, gps_points, point_idx, wire, delivered, emitted,
                    published, parsed, rejected, stop_seen >>

\* lines 734-750: an interrupt or an error ends main's try block and its
\* finally clause calls tracker.disconnect()
Interrupt ==
    /\ main_pc \in {"connect", "start_thread", "serve"}
    /\ main_pc' = "disconnect"
    /\ UNCHANGED << storeVars, configVars, db, trackerVars, listenVars,
                    web_pc, rows >>

\* disconnect(), line 169
DisconnectFlag ==
    /\ main_pc = "disconnect"
    /\ running' = FALSE
    /\ main_pc' = "join"
    /\ UNCHANGED << storeVars, configVars, db, data_lock, connected, socket,
                    socketio, listenVars, web_pc, rows >>

\* disconnect(), lines 170-172: join returns when the thread has finished
\* or when its 5 seconds have passed, whichever the thread is doing
DisconnectJoin ==
    /\ main_pc = "join"
    /\ main_pc' = "close"
    /\ UNCHANGED << storeVars, configVars, db, trackerVars, listenVars,
                    web_pc, rows >>

\* disconnect(), lines 173-183
DisconnectClose ==
    /\ main_pc = "close"
    /\ IF socket # "none"
       THEN socket' = "closed" /\ connected' = FALSE
       ELSE UNCHANGED << socket, connected >>
    /\ main_pc' = "done"
    /\ UNCHANGED << storeVars, configVars, db, data_lock, running, socketio,
                    listenVars, web_pc, rows >>

----------------------------------------------------------------------------
(* listen(), lines 530-568, and the store_gps_data call it makes *)

listenFrame == << storeVars, configVars, db, main_pc, web_pc, rows >>

\* lines 532-533
ListenStart ==
    /\ listen_pc = "start"
    /\ running' = TRUE
    /\ buffer' = << >>
    /\ listen_pc' = "while"
    /\ UNCHANGED << listenFrame, data_lock, connected, socket, socketio,
                    gps_points, point_idx, wire, delivered, emitted,
                    published, parsed, rejected, stop_seen >>

\* line 536: while self.running and self.connected and self.socket
ListenWhile ==
    /\ listen_pc = "while"
    /\ listen_pc' = IF running /\ connected /\ socket # "none"
                    THEN "recv" ELSE "finally"
    /\ stop_seen' = (stop_seen \/ ~running)
    /\ UNCHANGED << listenFrame, trackerVars, buffer, gps_points, point_idx,
                    wire, delivered, emitted, published, parsed, rejected >>

\* lines 538-543: recv returns some of the bytes the server sends; a chunk
\* that decodes to nothing is taken for the end of the connection
RecvData ==
    /\ listen_pc = "recv"
    /\ socket = "open"
    /\ \E n \in 1..Len(wire) :
          LET chunk == SubSeq(wire, 1, n)
              data == Decode(chunk)
          IN /\ wire' = SubSeq(wire, n + 1, Len(wire))
             /\ delivered' = delivered \o chunk
             /\ IF data = << >>
                THEN listen_pc' = "finally" /\ buffer' = buffer
                ELSE listen_pc' = "frame_check" /\ buffer' = buffer \o data
    /\ UNCHANGED << listenFrame, trackerVars, gps_points, point_idx, emitted,
                    published, parsed, rejected, stop_seen >>

\* lines 559-560: socket.timeout after the 30 seconds of line 158
RecvTimeout ==
    /\ listen_pc = "recv"
    /\ socket = "open"
    /\ listen_pc' = "while"
    /\ UNCHANGED << listenFrame, trackerVars, buffer, gps_points, point_idx,
                    wire, delivered, emitted, published, parsed, rejected,
                    stop_seen >>

\* lines 539-541: the peer has closed; what it had not sent is never sent
RecvClosed ==
    /\ listen_pc = "recv"
    /\ socket = "open"
    /\ wire' = << >>
    /\ listen_pc' = "finally"
    /\ UNCHANGED << listenFrame, trackerVars, buffer, gps_points, point_idx,
                    delivered, emitted, published, parsed, rejected,
                    stop_seen >>

\* lines 561-563: recv raises (the connection is reset, or disconnect() has
\* closed the socket)
RecvError ==
    /\ listen_pc = "recv"
    /\ socket \in {"open", "closed"}
    /\ listen_pc' = "finally"
    /\ UNCHANGED << listenFrame, trackerVars, buffer, gps_points, point_idx,
                    wire, delivered, emitted, published, parsed, rejected,
                    stop_seen >>

\* line 546: while '<data>' in buffer and '</data>' in buffer
FrameCheck ==
    /\ listen_pc = "frame_check"
    /\ listen_pc' = IF StrContains(buffer, OpenTag) /\ StrContains(buffer, CloseTag)
                    THEN "frame_body" ELSE "while"
    /\ UNCHANGED << listenFrame, trackerVars, buffer, gps_points, point_idx,
                    wire, delivered, emitted, published, parsed, rejected,
                    stop_seen >>

\* a slip: the closing tag is searched from the start of the buffer
FrameEndFromZero(text) == StrFind(text, CloseTag, 0) + 7

\* lines 547-548
FrameStart(text) == StrFind(text, OpenTag, 0)
FrameEnd(text) == StrFind(text, CloseTag, FrameStart(text)) + 7

\* a slip: a message without points ends the loop
AfterParseStops(points) == IF points # << >> THEN "store_lock" ELSE "finally"

\* a slip: the event is sent before the batch is stored
AfterParseNotifiesFirst(points) ==
    IF points # << >> THEN "emit_lock" ELSE "frame_check"

\* lines 556-557: if gps_points: self.store_gps_data(gps_points)
AfterParse(points) == IF points # << >> THEN "store_lock" ELSE "frame_check"

\* lines 547-557: one pass of the loop body, up to the store_gps_data
\* call; start, end, xml_message and gps_points are the locals of the code
FrameBody ==
    /\ listen_pc = "frame_body"
    /\ \E start \in {FrameStart(buffer)} : \E end \in {FrameEnd(buffer)} :
       IF start # -1 /\ end > start
          THEN \E xml_message \in {StrSlice(buffer, start, end)} :
               \E root \in {ParseXml(xml_message)} :
               \E result \in {ParseGpsData(root, target_sender)} :
                  /\ buffer' = StrFrom(buffer, end)
                  /\ emitted' = Append(emitted, xml_message)
                  /\ parsed' = parsed + 1
                  /\ rejected' = rejected + RejectedIn(root, target_sender)
                  /\ gps_points' = result.points
                  /\ listen_pc' = AfterParse(result.points)
          ELSE /\ listen_pc' = "frame_check"
               /\ UNCHANGED << buffer, emitted, parsed, rejected, gps_points >>
    /\ UNCHANGED << listenFrame, trackerVars, point_idx, wire, delivered,
                    published, stop_seen >>

\* a slip: the lock is entered without waiting for it
AcquireNoWait(holder) == data_lock' = holder

\* with self.data_lock: entered when no thread holds the lock
Acquire(holder) == data_lock = "free" /\ data_lock' = holder

\* line 312
StoreLock ==
    /\ listen_pc = "store_lock"
    /\ Acquire("listen")
    /\ point_idx' = 1
    /\ listen_pc' = "store_append"
    /\ UNCHANGED << listenFrame, running, connected, socket, socketio, buffer,
                    gps_points, wire, delivered, emitted, published, parsed,
                    rejected, stop_seen >>

\* line 317
StoreAppendStep ==
    /\ listen_pc = "store_append"
    /\ gps_data' = AppendPoint(gps_data, gps_points[point_idx])
    /\ listen_pc' = "store_limit"
    /\ UNCHANGED << latest_positions, arrived, configVars, db, main_pc, web_pc,
                    rows, trackerVars, buffer, gps_points, point_idx, wire,
                    delivered, emitted, published, parsed, rejected,
                    stop_seen >>

\* lines 320-321
StoreLimitStep ==
    /\ listen_pc = "store_limit"
    /\ gps_data' = LimitPoints(gps_data, gps_points[point_idx].sender,
                               max_points_per_sender)
    /\ listen_pc' = "store_latest"
    /\ UNCHANGED << latest_positions, arrived, configVars, db, main_pc, web_pc,
                    rows, trackerVars, buffer, gps_points, point_idx, wire,
                    delivered, emitted, published, parsed, rejected,
                    stop_seen >>

\* a slip: the summary for the event is asked for inside the with block
StoreLatestStepKeepsLock ==
    /\ listen_pc = "store_latest"
    /\ latest_positions' = SetLatest(latest_positions, gps_points[point_idx])
    /\ arrived' = Append(arrived, gps_points[point_idx])
    /\ IF point_idx < Len(gps_points)
       THEN /\ point_idx' = point_idx + 1
            /\ listen_pc' = "store_append"
       ELSE /\ point_idx' = point_idx
            /\ listen_pc' = "store_db"
    /\ UNCHANGED << gps_data, configVars, db, main_pc, web_pc, rows, running,
                    connected, socket, socketio, buffer, gps_points, wire,
                    delivered, emitted, published, parsed, rejected,
                    stop_seen, data_lock >>

\* line 324, then the next point or the end of the with block
StoreLatestStep ==
    /\ listen_pc = "store_latest"
    /\ latest_positions' = SetLatest(latest_positions, gps_points[point_idx])
    /\ arrived' = Append(arrived, gps_points[point_idx])
    /\ IF point_idx < Len(gps_points)
       THEN /\ point_idx' = point_idx + 1
            /\ listen_pc' = "store_append"
            /\ UNCHANGED data_lock
       ELSE /\ point_idx' = point_idx
            /\ listen_pc' = "store_db"
            /\ data_lock' = "free"
    /\ UNCHANGED << gps_data, configVars, db, main_pc, web_pc, rows, running,
                    connected, socket, socketio, buffer, gps_points, wire,
                    delivered, emitted, published, parsed, rejected,
                    stop_seen >>

\* a slip: an error of the database write leaves store_gps_data
StoreDbRaises ==
    /\ listen_pc = "store_db"
    /\ \E ok \in BOOLEAN :
          /\ db' = StoreToDatabase(db, gps_points, ok)
          /\ listen_pc' = IF db' = db THEN "finally"
                          ELSE IF socketio THEN "emit_lock" ELSE "frame_check"
    /\ UNCHANGED << storeVars, configVars, main_pc, web_pc, rows, trackerVars,
                    buffer, gps_points, point_idx, wire, delivered, emitted,
                    published, parsed, rejected, stop_seen >>

\* line 327: _store_to_database, which swallows its own errors
StoreDb ==
    /\ listen_pc = "store_db"
    /\ \E ok \in BOOLEAN : db' = StoreToDatabase(db, gps_points, ok)
    /\ listen_pc' = IF socketio THEN "emit_lock" ELSE "frame_check"
    /\ UNCHANGED << storeVars, configVars, main_pc, web_pc, rows, trackerVars,
                    buffer, gps_points, point_idx, wire, delivered, emitted,
                    published, parsed, rejected, stop_seen >>

\* line 333 -> line 572: get_sender_summary takes the lock
EmitLock ==
    /\ listen_pc = "emit_lock"
    /\ Acquire("listen")
    /\ listen_pc' = "emit_summary"
    /\ UNCHANGED << listenFrame, running, connected, socket, socketio, buffer,
                    gps_points, point_idx, wire, delivered, emitted, published,
                    parsed, rejected, stop_seen >>

\* lines 573-590: the summary is computed and the lock released
EmitSummary ==
    /\ listen_pc = "emit_summary"
    /\ data_lock' = "free"
    /\ listen_pc' = "emit_send"
    /\ UNCHANGED << listenFrame, running, connected, socket, socketio, buffer,
                    gps_points, point_idx, wire, delivered, emitted, published,
                    parsed, rejected, stop_seen >>

\* lines 331-336: the event is sent; its summary was computed under the
\* lock, and the store has not changed since (only this thread writes it)
EmitSent ==
    /\ listen_pc = "emit_send"
    /\ published' = Append(published, GpsUpdate(gps_points, gps_data))
    /\ listen_pc' = "frame_check"
    /\ UNCHANGED << listenFrame, trackerVars, buffer, gps_points, point_idx,
                    wire, delivered, emitted, parsed, rejected, stop_seen >>

\* line 331 raises: the exception leaves store_gps_data and is caught at
\* lines 561-563, which leave the loop
EmitRaises ==
    /\ listen_pc = "emit_send"
    /\ listen_pc' = "finally"
    /\ UNCHANGED << listenFrame, trackerVars, buffer, gps_points, point_idx,
                    wire, delivered, emitted, published, parsed, rejected,
                    stop_seen >>

\* a slip: the finally clause leaves the connected flag as it is
ListenFinallyKeepsFlag ==
    /\ listen_pc = "finally"
    /\ listen_pc' = "exited"
    /\ UNCHANGED << listenFrame, trackerVars, buffer, gps_points, point_idx,
                    wire, delivered, emitted, published, parsed, rejected,
                    stop_seen >>

\* lines 567-568
ListenFinally ==
    /\ listen_pc = "finally"
    /\ connected' = FALSE
    /\ listen_pc' = "exited"
    /\ UNCHANGED << listenFrame, data_lock, running, socket, socketio, buffer,
                    gps_points, point_idx, wire, delivered, emitted, published,
                    parsed, rejected, stop_seen >>

ListenNext ==
    \/ ListenStart \/ ListenWhile
    \/ RecvData \/ RecvTimeout \/ RecvClosed \/ RecvError
    \/ FrameCheck \/ FrameBody
    \/ StoreLock \/ StoreAppendStep \/ StoreLimitStep \/ StoreLatestStep
    \/ StoreDb \/ EmitLock \/ EmitSummary \/ EmitSent \/ EmitRaises
    \/ ListenFinally

----------------------------------------------------------------------------
(* The web request thread: lines 659-671 call create_map_html and          *)
(* get_sender_summary once create_app has run.                             *)

AppCreated == main_pc \notin {"construct", "loading", "constructed"}

\* get_sender_summary, line 572
WebSummaryEnter ==
    /\ web_pc = "idle"
    /\ AppCreated
    /\ Acquire("web")
    /\ web_pc' = "summary"
    /\ UNCHANGED << storeVars, configVars, db, main_pc, rows, running,
                    connected, socket, socketio, listenVars >>

\* create_map_html, line 365
WebMapEnter ==
    /\ web_pc = "idle"
    /\ AppCreated
    /\ Acquire("web")
    /\ web_pc' = "map"
    /\ UNCHANGED << storeVars, configVars, db, main_pc, rows, running,
                    connected, socket, socketio, listenVars >>

\* the end of either with block (lines 367, 528, 590)
WebLeave ==
    /\ web_pc \in {"summary", "map"}
    /\ data_lock' = "free"
    /\ web_pc' = "idle"
    /\ UNCHANGED << storeVars, configVars, db, main_pc, rows, running,
                    connected, socket, socketio, listenVars >>

WebNext == WebSummaryEnter \/ WebMapEnter \/ WebLeave

MainNext ==
    \/ LoadFetch \/ LoadFetchError \/ LoadInstall
    \/ CreateApp \/ ConnectOk \/ ConnectFail \/ StartThread

DisconnectNext ==
    Interrupt \/ DisconnectFlag \/ DisconnectJoin \/ DisconnectClose

----------------------------------------------------------------------------
(* The extraction specification: a listening tracker that is handed        *)
(* message trees, one at a time (lines 555-557).                           *)

\* the children of a point or of a single-point report
PointChoices ==
    { LatLng("90", "-180"), LatLng("-90", "180"),
      LatLng("90.01", "0"), LatLng("-90.01", "0"),
      LatLng("0", "180.01"), LatLng("0", "-180.01"),
      LatLng("nan", "0"), LatLng("0", "nan"),
      LatLng("abc", "0"), LatLng(Absent, "0"),
      << Elem("lat", "0", << >>) >>,
      LatLng("0", "0") \o << Elem("alt", "abc", << >>), Elem("emer", "1", << >>) >> }

MetaChoices == { << Meta("s1", "t1") >>, << Meta("s2", "t2") >> }

ReportChoices ==
    { << >> }
    \cup {<< Elem("nalGpsReport5", Absent, c) >> : c \in PointChoices}
    \cup {<< Elem("nalGpsReport3", Absent,
                  << Elem("point", Absent, c),
                     Elem("point", Absent, LatLng("-90", "180")) >>) >> :
            c \in PointChoices}
    \cup {<< Elem("pecosP3GpsReport", Absent, LatLng("0", "0")),
             Elem("nalGpsReport4", Absent,
                  << Elem("point", Absent, LatLng("90.01", "0")) >>) >>}

Messages ==
    {Elem("data", Absent, m \o r) : m \in MetaChoices, r \in ReportChoices}
    \cup {Elem("data", Absent, << Elem("nalGpsReport5", Absent, LatLng("0", "0")) >>),
          Elem("data", Absent, << Elem("meta", Absent, << >>) >>),
          ParseError}

\* the tracker as main() leaves it once the listen thread reads
Listening ==
    /\ gps_data = << >> /\ latest_positions = << >> /\ data_lock = "free"
    /\ rows = << >> /\ buffer = << >> /\ gps_points = << >> /\ point_idx = 1
    /\ arrived = << >> /\ delivered = << >> /\ emitted = << >>
    /\ published = << >> /\ parsed = 0 /\ rejected = 0 /\ stop_seen = FALSE
    /\ web_pc = "idle"
    /\ main_pc = "serve"
    /\ socketio = TRUE
    /\ socket = "open"
    /\ connected = TRUE
    /\ db = << >>

InitExtract ==
    /\ Listening
    /\ running = TRUE
    /\ listen_pc = "frame_body"
    /\ max_points_per_sender = MaxCap
    /\ target_sender \in {Absent, "s1"}
    /\ wire = << >>
    /\ DirectRun

\* lines 555-557 on one message
ProcessMessage ==
    /\ listen_pc = "frame_body"
    /\ parsed < MaxMessages
    /\ \E root \in Messages, db_ok \in BOOLEAN, emit_ok \in BOOLEAN :
          LET result == ParseGpsData(root, target_sender)
          IN /\ parsed' = parsed + 1
             /\ rejected' = rejected + RejectedIn(root, target_sender)
             /\ gps_points' = result.points
             /\ StoreGpsData(result.points, db_ok, emit_ok)
             /\ listen_pc' = IF result.points # << >> /\ socketio /\ ~emit_ok
                             THEN "finally" ELSE "frame_body"
    /\ UNCHANGED << configVars, trackerVars, main_pc, web_pc, rows, buffer,
                    point_idx, wire, delivered, emitted, stop_seen >>

NextExtract == ProcessMessage \/ ListenFinally

SpecExtract == InitExtract /\ [][NextExtract]_vars

----------------------------------------------------------------------------
(* The framing specification: the listen thread alone, on every stream of  *)
(* up to MaxPieces pieces, delivered in chunks of every size.              *)

Pieces == {OpenTag, CloseTag, << "x" >>, << "C3", "A9" >>}

RECURSIVE Streams(_)
Streams(n) ==
    IF n = 0 THEN {<< >>}
    ELSE Streams(n - 1) \cup {w \o q : w \in Streams(n - 1), q \in Pieces}

InitListen ==
    /\ Listening
    /\ running = FALSE
    /\ listen_pc = "start"
    /\ max_points_per_sender \in {1, MaxCap}
    /\ target_sender = Absent
    /\ wire \in Streams(MaxPieces)
    /\ DirectRun

SpecListen == InitListen /\ [][ListenNext]_vars

\* the thread is scheduled as long as it has a step to take
FairListen == SpecListen /\ WF_vars(ListenNext)

----------------------------------------------------------------------------
(* The message specification: the listen thread on streams of two          *)
(* messages, with and without a target sender.                             *)

Message(c) == OpenTag \o << c >> \o CloseTag

MessageLetters == {"y", "n", "m", "e", "u", "c", "d", "p", "q", "a", "b", "<"}

MessageStreams ==
    {Message("x") \o Message(c) : c \in MessageLetters}
    \cup {Message(c) \o Message("y") : c \in MessageLetters}
    \cup {Message("x") \o Message("y") \o Message("x")}

InitMessages ==
    /\ Listening
    /\ running = FALSE
    /\ listen_pc = "start"
    /\ max_points_per_sender \in {1, MaxCap}
    /\ target_sender \in {Absent, "s1"}
    /\ wire \in MessageStreams
    /\ DirectRun

SpecMessages == InitMessages /\ [][ListenNext]_vars

----------------------------------------------------------------------------
(* The summary specification: store_gps_data is called on a tracker whose  *)
(* app exists, with batches of points that carry altitudes, and publishes  *)
(* the summary of the store after every batch.                             *)

SummaryCap == 6
MaxSummaryPoints == 6

SummaryPoint(a) ==
    [sender |-> "s1", timestamp |-> "t1", lat |-> F(0), lng |-> F(0),
     altitude |-> a, emergency |-> Missing]

\* no altitude, 0.0, 4.96, 5.0 and 5.04 metres
SummaryAltitudes == {Missing, Some(F(0)), Some(F(496)), Some(F(500)), Some(F(504))}

\* the altitude profiles of tests/test_gps_web_tracker.py, lines 10-14,
\* 21-25 and 32-36
TestProfiles ==
    { << 50000, 50200, 49800 >>, << 10000, 11000, 12000 >>,
      << 20000, 19000, 18000 >> }

SummaryBatches ==
    {<< SummaryPoint(a) >> : a \in SummaryAltitudes}
    \cup {[i \in 1..3 |-> SummaryPoint(Some(F(profile[i])))] :
              profile \in TestProfiles}

\* the tracker after __init__ on an empty database and create_app
InitSummary ==
    /\ gps_data = << >> /\ latest_positions = << >> /\ data_lock = "free"
    /\ running = FALSE /\ connected = FALSE /\ socket = "none"
    /\ socketio = TRUE
    /\ main_pc = "connect" /\ listen_pc = "not_started" /\ web_pc = "idle"
    /\ rows = << >> /\ buffer = << >> /\ gps_points = << >> /\ point_idx = 1
    /\ arrived = << >> /\ delivered = << >> /\ emitted = << >>
    /\ published = << >> /\ parsed = 0 /\ rejected = 0 /\ stop_seen = FALSE
    /\ db = << >>
    /\ wire = << >>
    /\ max_points_per_sender = SummaryCap
    /\ target_sender = Absent
    /\ DirectRun

SummaryStoreCall ==
    /\ main_pc = "connect"
    /\ \E points \in SummaryBatches :
          /\ Len(arrived) + Len(points) <= MaxSummaryPoints
          /\ StoreGpsData(points, TRUE, TRUE)
    /\ UNCHANGED << configVars, trackerVars, main_pc, listen_pc,
                    web_pc, rows, buffer, gps_points, point_idx, wire,
                    delivered, emitted, parsed, rejected, stop_seen >>

SpecSummary == InitSummary /\ [][SummaryStoreCall]_vars

----------------------------------------------------------------------------
(* The command-line specification: cli.py from its imports to the tracker  *)
(* that main() constructs, for every environment and option set below.     *)

\* Python truthiness of an optional int
TruthyInt(x) == x # Missing /\ x[1] # 0

\* the environments of the process
Environments ==
    [GPS_HOST : {Absent},
     GPS_PORT : {Absent, PyStr(0), PyStr(1), PyStr(65535), PyStr(65536)},
     WEB_PORT : {Absent, PyStr(0), PyStr(1), PyStr(65536)},
     TARGET_SENDER : {Absent, "s2"},
     MAX_POINTS_PER_SENDER : {Absent, PyStr(0), PyStr(1), PyStr(-1)}]

\* the options of the command line, as parse_args returns them (the options
\* --web-host and --log-level, which no part of the model reads, are not
\* given)
Options ==
    [gps_host : {Absent, "h1"},
     gps_port : {Missing, Some(8080)},
     web_port : {Missing, Some(8000)},
     target_sender : {Absent, "s1"},
     max_points : {Missing, Some(2)},
     check_config : BOOLEAN]

\* the process before cli.py runs its imports; no tracker exists
InitCli ==
    /\ gps_data = << >> /\ latest_positions = << >> /\ data_lock = "free"
    /\ running = FALSE /\ connected = FALSE /\ socket = "none"
    /\ socketio = FALSE
    /\ main_pc = "cli_import" /\ listen_pc = "not_started" /\ web_pc = "idle"
    /\ rows = << >> /\ buffer = << >> /\ gps_points = << >> /\ point_idx = 1
    /\ arrived = << >> /\ delivered = << >> /\ emitted = << >>
    /\ published = << >> /\ parsed = 0 /\ rejected = 0 /\ stop_seen = FALSE
    /\ db = << >>
    /\ wire = << >>
    /\ max_points_per_sender = Absent /\ target_sender = Absent
    /\ host = Absent /\ port = Absent
    /\ Config = Absent
    /\ environ \in Environments
    /\ args \in Options

cliFrame == << storeVars, trackerVars, listenVars, db, web_pc, rows >>

\* cli.py, lines 9-10: importing gps_web_tracker imports config, whose class
\* body reads the environment
CliImport ==
    /\ main_pc = "cli_import"
    /\ Config' = ImportConfig(environ)
    /\ main_pc' = "cli_apply"
    /\ UNCHANGED << cliFrame, max_points_per_sender, target_sender, host, port,
                    environ, args >>

\* apply_args_to_config(args), lines 74-85, and the branch of line 117
ApplyArgsToConfig ==
    /\ main_pc = "cli_apply"
    /\ environ' =
          [GPS_HOST |-> IF Truthy(args.gps_host) THEN args.gps_host
                        ELSE environ.GPS_HOST,
           GPS_PORT |-> IF TruthyInt(args.gps_port) THEN PyStr(args.gps_port[1])
                        ELSE environ.GPS_PORT,
           WEB_PORT |-> IF TruthyInt(args.web_port) THEN PyStr(args.web_port[1])
                        ELSE environ.WEB_PORT,
           TARGET_SENDER |-> IF Truthy(args.target_sender) THEN args.target_sender
                             ELSE environ.TARGET_SENDER,
           MAX_POINTS_PER_SENDER |->
               IF TruthyInt(args.max_points) THEN PyStr(args.max_points[1])
               ELSE environ.MAX_POINTS_PER_SENDER]
    /\ main_pc' = IF args.check_config THEN "check_config" ELSE "validate"
    /\ UNCHANGED << cliFrame, max_points_per_sender, target_sender, host, port,
                    Config, args >>

\* check_config(), lines 101-107, and the exits of lines 118-121
CheckConfig ==
    /\ main_pc = "check_config"
    /\ main_pc' = IF Validate(Config) = "True" THEN "exit_0" ELSE "exit_1"
    /\ UNCHANGED << cliFrame, configVars >>

\* main(), line 702, and the handler of lines 738-742
MainValidate ==
    /\ main_pc = "validate"
    /\ main_pc' = IF Validate(Config) = "True" THEN "init_tracker" ELSE "exit_1"
    /\ UNCHANGED << cliFrame, configVars >>

\* main(), line 711: GPSWebTracker() with no argument, lines 31-45
Construct ==
    /\ main_pc = "init_tracker"
    /\ host' = Config.GPS_HOST
    /\ port' = Config.GPS_PORT
    /\ target_sender' = Config.TARGET_SENDER
    /\ max_points_per_sender' = Config.MAX_POINTS_PER_SENDER
    /\ main_pc' = "construct"
    /\ UNCHANGED << cliFrame, environ, Config, args >>

NextCli ==
    CliImport \/ ApplyArgsToConfig \/ CheckConfig \/ MainValidate \/ Construct

SpecCli == InitCli /\ [][NextCli]_vars

----------------------------------------------------------------------------
(* The whole program: main(), the listen thread and a web request thread.  *)

\* a row a previous run has stored
OldRow ==
    RowOfPoint([sender |-> "s1", timestamp |-> "t1", lat |-> F(0),
                lng |-> F(0), altitude |-> Missing, emergency |-> Missing])

ProgramStreams ==
    { OpenTag \o << "x" >> \o CloseTag \o OpenTag \o << "y" >> \o CloseTag,
      CloseTag \o OpenTag }

\* one message, and a closing tag ahead of an opening tag
FairStreams == { OpenTag \o << "x" >> \o CloseTag, CloseTag \o OpenTag }

Init ==
    /\ InitTracker
    /\ max_points_per_sender \in {1, MaxCap}
    /\ target_sender = Absent
    /\ db \in {<< >>, << OldRow >>}
    /\ wire \in ProgramStreams
    /\ DirectRun

Next == MainNext \/ DisconnectNext \/ ListenNext \/ WebNext

Spec == Init /\ [][Next]_vars

\* every thread is scheduled; a request leaves the lock it holds; the lock
\* is handed to a thread that keeps asking for it; once main's try block has
\* ended, disconnect() runs to its end
\* the program on a run with an empty database
FairInit ==
    /\ InitTracker
    /\ max_points_per_sender = 1
    /\ target_sender = Absent
    /\ db = << >>
    /\ wire \in FairStreams
    /\ DirectRun

FairSpec ==
    /\ FairInit /\ [][Next]_vars
    /\ WF_vars(ListenNext)
    /\ SF_vars(StoreLock) /\ SF_vars(EmitLock)
    /\ WF_vars(WebLeave)
    /\ WF_vars(DisconnectFlag \/ DisconnectJoin \/ DisconnectClose)

----------------------------------------------------------------------------
(* Properties of the history store *)

\* the points of one sender among those installed, in arrival order
Arrivals(s) == SelectSeq(arrived, LAMBDA p : p.sender = s)
\* the n newest elements of a sequence
Newest(seq, n) == IF Len(seq) <= n THEN seq
                  ELSE [i \in 1..n |-> seq[Len(seq) - n + i]]
History(s) == DefaultGet(gps_data, s)
Constructed == main_pc \notin {"construct", "loading"}
\* the points appended by store_gps_data since start-up
Appended == SubSeq(arrived, Len(rows) + 1, Len(arrived))

\* C1: with a cap of at least 1, after any bulk load and appends every
\* sender's history holds at most max_points_per_sender points, and they
\* are exactly the newest points installed for that sender, in arrival order.
C1_HistoryCap ==
    \A s \in Senders :
        /\ Len(History(s)) <= max_points_per_sender
        /\ History(s) = Newest(Arrivals(s), max_points_per_sender)
        /\ DictKeys(gps_data) \subseteq Senders

\* a sender that was loaded and appended to beyond the cap: the oldest
\* points are gone and the history is full
C1_Witness ==
    \E s \in Senders :
        /\ Len(Arrivals(s)) >= max_points_per_sender + 3
        /\ Len(Appended) >= 2
        /\ Len(rows) >= 2
        /\ Len(History(s)) = max_points_per_sender
        /\ History(s)[1] # Arrivals(s)[1]

RECURSIVE ReplayOneByOne(_, _, _, _)
ReplayOneByOne(st, points, i, cap) ==
    IF i > Len(points) THEN st
    ELSE ReplayOneByOne(StoreInMemory(st, << points[i] >>, cap),
                        points, i + 1, cap)

\* C5: bulk loading a list ordered by sender then timestamp into the empty
\* store gives the histories and latest positions that appending the same
\* records one call at a time gives.
C5_BulkLoadIsReplay ==
    (Constructed /\ Appended = << >>) =>
        Store = ReplayOneByOne(EmptyStore,
                               [i \in 1..Len(rows) |-> PointOfRow(rows[i])],
                               1, max_points_per_sender)

\* a load of two senders, one of them with more rows than the cap
C5_Witness ==
    /\ Constructed
    /\ Appended = << >>
    /\ Len(gps_data) = 2
    /\ \E s \in Senders : Len(Arrivals(s)) > max_points_per_sender

\* C6: whatever the batches the appended points came in, the store is the
\* one that a single store_gps_data call with all of them, in order, gives
\* from the store as loaded (so A then B equals A followed by B).
C6_BatchingIndependent ==
    Constructed =>
        Store = StoreInMemory(LoadRows(EmptyStore, rows, max_points_per_sender),
                              Appended, max_points_per_sender)

\* two senders were appended to and a history went over the cap
C6_Witness ==
    /\ Constructed
    /\ Len(Appended) = MaxAppended
    /\ \E s, t \in Senders :
          /\ s # t
          /\ \E i, j \in 1..Len(Appended) :
                Appended[i].sender = s /\ Appended[j].sender = t
          /\ Len(Arrivals(s)) > max_points_per_sender

\* C7: the latest position of every sender is the last element of its
\* history, and the senders with a latest position are those with a
\* non-empty history.
C7_LatestIsLast ==
    /\ DictKeys(latest_positions) = {s \in DictKeys(gps_data) : History(s) # << >>}
    /\ \A s \in DictKeys(latest_positions) :
          DictGet(latest_positions, s) = Last(History(s))

\* a sender whose latest position was replaced by an append after the load
C7_Witness ==
    \E s \in Senders :
        /\ DictHas(latest_positions, s)
        /\ \E i \in 1..Len(rows) : rows[i].sender = s
        /\ \E i \in 1..Len(Appended) : Appended[i].sender = s
        /\ DictGet(latest_positions, s) # PointOfRow(Last(SelectSeq(rows, LAMBDA r : r.sender = s)))

----------------------------------------------------------------------------
(* Properties of the framer *)

\* the messages the loop of lines 546-557 takes from a text it is given whole
RECURSIVE FrameAll(_)
FrameAll(text) ==
    IF ~(StrContains(text, OpenTag) /\ StrContains(text, CloseTag)) THEN << >>
    ELSE IF FrameEnd(text) > FrameStart(text)
         THEN << StrSlice(text, FrameStart(text), FrameEnd(text)) >>
                  \o FrameAll(StrFrom(text, FrameEnd(text)))
         ELSE << >>

\* C2: the message-extraction loop run after a read terminates for every
\* buffer and chunk: from the loop's test the thread always comes back to
\* the read loop (or leaves it through an exception).
C2_FramingTerminates ==
    (listen_pc = "frame_check") ~> (listen_pc \in {"while", "finally", "exited"})

\* C3: whenever the thread is back at the read loop, the messages emitted so
\* far are those of the bytes delivered so far taken as one chunk, however
\* the bytes were divided into chunks; so a message split in two gives
\* nothing after its first part and itself, whole, after the second.
C3_ChunkingIndependent ==
    listen_pc = "while" => emitted = FrameAll(Decode(delivered))

----------------------------------------------------------------------------
(* Properties of the extractor *)

InRange(lat, lng) ==
    /\ ~lat.nan /\ lat.v >= -9000 /\ lat.v <= 9000
    /\ ~lng.nan /\ lng.v >= -18000 /\ lng.v <= 18000

\* C8: no record with lat outside [-90, 90] or lng outside [-180, 180] is
\* produced by extraction, kept in the history store, passed to persistence
\* or published.
C8_CoordinatesInRange ==
    /\ \A i \in 1..Len(gps_points) : InRange(gps_points[i].lat, gps_points[i].lng)
    /\ \A i \in 1..Len(gps_data) : \A j \in 1..Len(gps_data[i].v) :
          InRange(gps_data[i].v[j].lat, gps_data[i].v[j].lng)
    /\ \A i \in 1..Len(latest_positions) :
          InRange(latest_positions[i].v.lat, latest_positions[i].v.lng)
    /\ \A i \in 1..Len(db) : InRange(db[i].latitude, db[i].longitude)
    /\ \A i \in 1..Len(published) : \A j \in 1..Len(published[i].points) :
          InRange(published[i].points[j].lat, published[i].points[j].lng)

\* out-of-range reports were met and refused, and points of the same run
\* were stored, persisted and published
C8_Witness ==
    /\ rejected >= 2
    /\ parsed = MaxMessages
    /\ gps_data # << >>
    /\ db # << >>
    /\ published # << >>

----------------------------------------------------------------------------
(* Properties of the threads *)

\* the listen thread is inside store_gps_data's with block
ListenInAppend == listen_pc \in {"store_append", "store_limit", "store_latest"}
\* the listen thread is inside get_sender_summary's with block
ListenInSummary == listen_pc = "emit_summary"
\* a request is inside get_sender_summary's or create_map_html's with block
WebInRead == web_pc \in {"summary", "map"}
\* load_historical_data has not finished
InBulkLoad == main_pc \in {"construct", "loading"}
\* some points of the batch in hand are installed and some are not
PartialBatch ==
    \/ listen_pc \in {"store_limit", "store_latest"}
    \/ listen_pc = "store_append" /\ point_idx > 1

\* C4: no two store operations are inside their access to the sender
\* mapping at the same time, and a reader inside its access sees no
\* partially applied batch, no history longer than the cap and no latest
\* record other than the last element of its sender's history.
C4_StoreAccessExclusive ==
    /\ ~((ListenInAppend \/ ListenInSummary) /\ WebInRead)
    /\ InBulkLoad => ~(ListenInAppend \/ ListenInSummary \/ WebInRead)
    /\ (WebInRead \/ ListenInSummary) =>
          /\ ~PartialBatch
          /\ \A i \in 1..Len(gps_data) :
                Len(gps_data[i].v) <= max_points_per_sender
          /\ DictKeys(latest_positions) = DictKeys(gps_data)
          /\ \A i \in 1..Len(latest_positions) :
                latest_positions[i].v = Last(History(latest_positions[i].k))

\* a request reads the loaded history while the listen thread waits for
\* the lock with a batch of two points
C4_Witness ==
    /\ web_pc = "map"
    /\ listen_pc = "store_lock"
    /\ Len(gps_points) = 2
    /\ gps_data # << >>

\* C9: whenever the listen loop has exited, the socket is no longer open.
C9_ExitClosesSocket == listen_pc = "exited" => socket # "open"

\* C10: once disconnect() has been called while the listen thread exists,
\* the listen loop eventually exits.
C10_StopLeadsToExit ==
    (main_pc = "join" /\ listen_pc # "not_started") ~> (listen_pc = "exited")

\* C11: a read that times out leaves the buffer and the store as they are
\* and brings the thread back to the loop test, which lets it out only when
\* running or connected is false; a read that ends the loop (zero-length
\* read, socket error) is followed by no further read; and once the loop
\* has exited connected is false.
C11_ReadOutcomes ==
    [][ /\ (listen_pc = "recv" /\ delivered' = delivered /\ listen_pc' # "recv")
             => listen_pc' \in {"while", "finally"}
        /\ (listen_pc = "recv" /\ listen_pc' = "while")
             => UNCHANGED << buffer, gps_data, latest_positions, db >>
        /\ (listen_pc = "while" /\ listen_pc' = "finally")
             => ~(running /\ connected)
        /\ listen_pc \in {"finally", "exited"}
             => (listen_pc' \in {"finally", "exited"} /\ delivered' = delivered)
        /\ listen_pc' = "exited" => ~connected' ]_vars

\* the server has closed the connection after sending data: the loop has
\* exited while main() still serves
C11_Witness ==
    /\ listen_pc = "exited"
    /\ main_pc = "serve"
    /\ socket = "open"
    /\ delivered # << >>
    /\ wire = << >>
    /\ ~connected

\* C12: the push of a batch to the web clients, failed or not, is followed
\* by the next pass of the extraction loop (the thread goes on processing
\* and reading), with the batch in memory.
C12_PushFailureNotFatal ==
    [][ listen_pc = "emit_send"
          => /\ listen_pc' \in {"emit_send", "frame_check"}
             /\ UNCHANGED << gps_data, latest_positions >> ]_vars

\* C13: the durable write of a batch, failed or not, leaves the batch in
\* memory and is followed by the notification for that batch, after which
\* the thread goes on with the following messages.
C13_WriteFailureNotFatal ==
    [][ listen_pc = "store_db"
          => /\ listen_pc' \in {"store_db",
                                IF socketio THEN "emit_lock" ELSE "frame_check"}
             /\ UNCHANGED << gps_data, latest_positions >> ]_vars

\* two batches were stored in memory and published although neither of
\* them was written to the database
C13_Witness ==
    /\ Len(published) = 2
    /\ Len(Appended) = 3
    /\ Len(db) <= 1
    /\ listen_pc = "while"


----------------------------------------------------------------------------
(* Properties of the messages *)

\* the text between the tags of the envelope is not well-formed
MalformedText(xml) ==
    \E i \in (Len(OpenTag) + 1)..(Len(xml) - Len(CloseTag)) : xml[i] = "<"

\* a FrameBody step that has cut a message from the buffer
Emits == emitted' # emitted

StoreUntouched == UNCHANGED << gps_data, latest_positions, arrived, db, published >>

\* the points of the messages emitted so far, message after message
RECURSIVE PointsOf(_, _)
PointsOf(messages, target) ==
    IF messages = << >> THEN << >>
    ELSE ParseGpsData(ParseXml(Head(messages)), target).points
             \o PointsOf(Tail(messages), target)

StoringBatch ==
    listen_pc \in {"store_lock", "store_append", "store_limit", "store_latest"}

\* C14: a framed message that is not well-formed yields no records, leaves
\* the store as it was and does not end the loop; whenever no batch is being
\* appended, the points installed are those of the messages emitted so far,
\* in emission order.
C14_MalformedIsDropped ==
    [][ /\ (Emits /\ MalformedText(Last(emitted')))
            => /\ gps_points' = << >>
               /\ listen_pc' = "frame_check"
               /\ StoreUntouched
        /\ ~StoringBatch' => arrived' = PointsOf(emitted', target_sender) ]_vars

C14_Witness ==
    /\ Len(emitted) = 2
    /\ MalformedText(emitted[1])
    /\ Len(arrived) = 1
    /\ Len(published) = 1
    /\ listen_pc = "while"

\* the root has no meta section, or its meta section has no sender element
NoSender(root) ==
    \/ Find(root, "meta") = Missing
    \/ Find(Find(root, "meta")[1], "sender") = Missing

SenderOf(root) == Find(Find(root, "meta")[1], "sender")[1].text

\* C15: a message without meta section or without meta/sender yields no
\* records; with a target sender set, a message of another sender yields no
\* records; in both cases the store is left as it was.
C15_NoSenderOrOtherSender ==
    [][ Emits =>
          LET root == ParseXml(Last(emitted'))
          IN (/\ root # ParseError
              /\ \/ NoSender(root)
                 \/ (Truthy(target_sender) /\ SenderOf(root) # target_sender))
                => /\ gps_points' = << >>
                   /\ listen_pc' = "frame_check"
                   /\ StoreUntouched ]_vars

C15_Witness ==
    /\ target_sender = "s1"
    /\ Len(emitted) = 2
    /\ emitted[2] = Message("y")
    /\ Len(arrived) = 2
    /\ listen_pc = "while"

AllRecords ==
    {gps_points[i] : i \in 1..Len(gps_points)}
    \cup {arrived[i] : i \in 1..Len(arrived)}

\* C16: every record extracted or stored has a sender and a timestamp
C16_SenderAndTimestampPresent ==
    \A p \in AllRecords : p.sender # Absent /\ p.timestamp # Absent

\* the collection report of a message, if it has one
CollectionOf(root) ==
    IF Find(root, "nalGpsReport3") # Missing THEN Find(root, "nalGpsReport3")
    ELSE Find(root, "nalGpsReport4")

\* a point element with both coordinates, parsable and in range
GoodPoint(e) ==
    /\ Find(e, "lat") # Missing
    /\ Find(e, "lng") # Missing
    /\ ParseFloat(Find(e, "lat")[1].text).ok
    /\ ParseFloat(Find(e, "lng")[1].text).ok
    /\ InRange(ParseFloat(Find(e, "lat")[1].text).val,
               ParseFloat(Find(e, "lng")[1].text).val)

Coordinates(e) ==
    << ParseFloat(Find(e, "lat")[1].text).val,
       ParseFloat(Find(e, "lng")[1].text).val >>

\* C17: the records of an accepted message with a collection report are its
\* good points, in document order; a point that is not good is left out alone.
C17_InvalidPointDroppedAlone ==
    [][ Emits =>
          LET root == ParseXml(Last(emitted'))
          IN (/\ root # ParseError
              /\ ~NoSender(root)
              /\ ~(Truthy(target_sender) /\ SenderOf(root) # target_sender)
              /\ CollectionOf(root) # Missing)
                => LET good == SelectSeq(FindAll(CollectionOf(root)[1], "point"),
                                         GoodPoint)
                   IN /\ Len(gps_points') = Len(good)
                      /\ \A k \in 1..Len(good) :
                            << gps_points'[k].lat, gps_points'[k].lng >>
                                = Coordinates(good[k]) ]_vars

C17_Witness ==
    /\ emitted # << >>
    /\ Last(emitted) = Message("c")
    /\ listen_pc = "store_lock"
    /\ Len(gps_points) = 2
    /\ gps_points[1].lat = F(9000)
    /\ gps_points[2].lat = F(-9000)


----------------------------------------------------------------------------
(* Properties of the summarizer *)

\* the last min(5, count) records and their altitudes, in the order stored
Window(history) == Newest(history, 5)
Readings(history) ==
    SelectSeq(Window(history), LAMBDA p : p.altitude # Missing)

\* last minus first reading of the window, in hundredths; 0 without trend
Change(history) ==
    IF Len(history) < 2 \/ Len(Readings(history)) < 2 THEN 0
    ELSE Last(Readings(history)).altitude[1].v - Readings(history)[1].altitude[1].v

Trend(change) ==
    IF change > 500 THEN "rising"
    ELSE IF change < -500 THEN "falling" ELSE "stable"

\* the nearest tenth of a value in hundredths that is not halfway
Tenth(n) == CHOOSE t \in (n - 4)..(n + 4) : t % 10 = 0

\* the summary entry of a sender in the event published last
Reported(s) == DictGet(Last(published).sender_summary, s)

\* C18: the altitude fields published for a sender are those of the
\* reference algorithm on the sender's history: the latest altitude to one
\* decimal or absent; the change from the first to the last reading among
\* the last min(5, count) records, to one decimal, 0.0 with fewer than two
\* records or readings; rising for a change above 5.0, falling for a change
\* below -5.0, stable otherwise.
C18_AltitudeSummary ==
    published # << >> =>
        \A s \in DictKeys(gps_data) :
            History(s) # << >> =>
                /\ DictHas(Last(published).sender_summary, s)
                /\ Reported(s).altitude =
                       IF Last(History(s)).altitude = Missing THEN Missing
                       ELSE Some(F(Tenth(Last(History(s)).altitude[1].v)))
                /\ Reported(s).altitude_change = F(Tenth(Change(History(s))))
                /\ Reported(s).altitude_trend = Trend(Change(History(s)))

\* six records: the first has the highest altitude and lies outside the
\* window, the second has no altitude, and the window rises by 5.04
C18_Witness ==
    /\ Len(History("s1")) = 6
    /\ History("s1")[1].altitude = Some(F(504))
    /\ History("s1")[2].altitude = Missing
    /\ History("s1")[3].altitude = Some(F(0))
    /\ History("s1")[6].altitude = Some(F(504))
    /\ Len(published) = 6
    /\ Reported("s1").altitude_trend = "rising"

\* C19: in every published summary the trend is rising exactly when the
\* published change is above 5.0, falling exactly when it is below -5.0, and
\* stable otherwise.
C19_TrendMatchesReportedChange ==
    \A i \in 1..Len(published) :
        \A j \in 1..Len(published[i].sender_summary) :
            LET entry == published[i].sender_summary[j].v
            IN entry.altitude_trend =
                   IF FloatGt(entry.altitude_change, F(500)) THEN "rising"
                   ELSE IF FloatLt(entry.altitude_change, F(-500)) THEN "falling"
                   ELSE "stable"


----------------------------------------------------------------------------
(* Properties of a failed connection *)

\* C20: connect() that fails returns False to main, which goes on to serve:
\* the tracker is not connected, the listen thread is never started, the
\* store is left as it was, and a request for the summary is let in whenever
\* no other request is being served.
C20_FailedConnect ==
    /\ [][ /\ (main_pc = "connect" /\ socket' = "unconnected")
                => /\ main_pc' = "serve"
                   /\ UNCHANGED << gps_data, latest_positions, db >>
           /\ socket' = "unconnected"
                => (~connected' /\ listen_pc' = "not_started") ]_vars
    /\ []((socket = "unconnected" /\ web_pc = "idle") => ENABLED WebSummaryEnter)

\* after the failed attempt a request reads the summary of the loaded data
C20_Witness ==
    /\ socket = "unconnected"
    /\ main_pc = "serve"
    /\ web_pc = "summary"
    /\ gps_data # << >>
    /\ ~connected
    /\ listen_pc = "not_started"


----------------------------------------------------------------------------
(* Properties of the configuration *)

PortInRange(n) == n >= 1 /\ n <= 65535

SettingsValid ==
    /\ PortInRange(Config.GPS_PORT)
    /\ PortInRange(Config.WEB_PORT)
    /\ Config.MAX_POINTS_PER_SENDER >= 1

\* C21: Config.validate() returns True exactly when both ports are within
\* 1..65535 and MAX_POINTS_PER_SENDER is at least 1, raises ValueError
\* otherwise, and changes no configuration value.
C21_ValidateChecksRanges ==
    [][ /\ main_pc = "validate"
            => /\ Config' = Config
               /\ main_pc' = IF SettingsValid THEN "init_tracker" ELSE "exit_1"
        /\ main_pc = "check_config"
            => /\ Config' = Config
               /\ main_pc' = IF SettingsValid THEN "exit_0" ELSE "exit_1" ]_vars

\* validate has raised for a configuration whose only fault is the cap
C21_Witness ==
    /\ main_pc = "exit_1"
    /\ ~args.check_config
    /\ Config.GPS_PORT = 65535
    /\ Config.WEB_PORT = 1
    /\ Config.MAX_POINTS_PER_SENDER = 0


\* C27: the tracker that main() constructs in a run of cli.py has the host,
\* the port, the target sender and the cap of the options given
C27_OptionsOverride ==
    main_pc = "construct" =>
        /\ Truthy(args.gps_host) => host = args.gps_host
        /\ TruthyInt(args.gps_port) => port = args.gps_port[1]
        /\ Truthy(args.target_sender) => target_sender = args.target_sender
        /\ TruthyInt(args.max_points) => max_points_per_sender = args.max_points[1]


----------------------------------------------------------------------------
(* Properties of one framing step *)

\* the tag starts at position i of the text (positions from 0)
TagAt(text, tag, i) ==
    i + Len(tag) <= Len(text) /\ SubSeq(text, i + 1, i + Len(tag)) = tag

Lowest(S) == CHOOSE i \in S : \A j \in S : i <= j

FirstOpen(text) == Lowest({i \in 0..Len(text) : TagAt(text, OpenTag, i)})
FirstCloseAfter(text, i) ==
    Lowest({j \in i..Len(text) : TagAt(text, CloseTag, j)})

\* an opening tag is followed later by a closing tag
HasPair(text) ==
    \E i \in 0..Len(text) : \E j \in i..Len(text) :
        TagAt(text, OpenTag, i) /\ TagAt(text, CloseTag, j)

\* C22: a framing step on a buffer with an opening tag followed by a closing
\* tag emits the text from the first opening tag through the first closing
\* tag after it and removes the buffer up to the end of that closing tag; a
\* step on any other buffer emits nothing and keeps the buffer; the loop is
\* left only with a buffer without such a pair, and nothing else than a read
\* changes the buffer.
C22_FramingStep ==
    [][ /\ listen_pc = "frame_body" =>
              IF HasPair(buffer)
              THEN LET i == FirstOpen(buffer)
                       j == FirstCloseAfter(buffer, i)
                   IN /\ emitted' = Append(emitted, SubSeq(buffer, i + 1, j + 7))
                      /\ buffer' = SubSeq(buffer, j + 8, Len(buffer))
              ELSE emitted' = emitted /\ buffer' = buffer
        /\ (listen_pc = "frame_check" /\ listen_pc' = "while") => ~HasPair(buffer)
        /\ listen_pc \notin {"frame_body", "recv", "start"} =>
              (buffer' = buffer /\ emitted' = emitted) ]_vars

\* a message was emitted and the opening tag of the next is kept
C22_Witness ==
    /\ listen_pc = "while"
    /\ emitted = << OpenTag \o CloseTag >>
    /\ buffer = OpenTag
    /\ wire = << >>


----------------------------------------------------------------------------
(* Properties of the choice of the report *)

\* the places of ReportTypes whose tag is a child of the root
Present(root) == {t \in 1..Len(ReportTypes) : Find(root, ReportTypes[t]) # Missing}

\* the elements of the first report type present that can give a record
Chosen(root) ==
    LET tag == ReportTypes[Lowest(Present(root))]
        report == Find(root, tag)[1]
    IN IF tag \in {"nalGpsReport3", "nalGpsReport4"}
       THEN SelectSeq(FindAll(report, "point"), GoodPoint)
       ELSE SelectSeq(<< report >>, GoodPoint)

\* C23: the records of an accepted message are the good points of the first
\* report type of the list that the message holds, and of no other; a
\* message that holds none of them gives no record.
C23_OneSchemaPerMessage ==
    [][ Emits =>
          LET root == ParseXml(Last(emitted'))
          IN (/\ root # ParseError
              /\ ~NoSender(root)
              /\ ~(Truthy(target_sender) /\ SenderOf(root) # target_sender))
                => IF Present(root) = {} THEN gps_points' = << >>
                   ELSE /\ Len(gps_points') = Len(Chosen(root))
                        /\ \A k \in 1..Len(gps_points') :
                              << gps_points'[k].lat, gps_points'[k].lng >>
                                  = Coordinates(Chosen(root)[k]) ]_vars

\* the message with a valid pecosP3GpsReport and a nalGpsReport4 without a
\* valid point has given no record
C23_Witness ==
    /\ Len(emitted) = 2
    /\ emitted[2] = Message("p")
    /\ gps_points = << >>
    /\ Len(arrived) = 2
    /\ listen_pc = "while"


----------------------------------------------------------------------------
(* Properties of the order of the steps of store_gps_data *)

\* the batch in hand is the end of the points installed
BatchStored ==
    /\ Len(arrived) >= Len(gps_points)
    /\ SubSeq(arrived, Len(arrived) - Len(gps_points) + 1, Len(arrived))
           = gps_points

\* the last record of a sender in a batch
LastOf(points, s) == Last(SelectSeq(points, LAMBDA p : p.sender = s))

Smaller(a, b) == IF a <= b THEN a ELSE b

\* C24: the listen thread appends a batch, then writes it to the table, then
\* sends the event: the table is written and the event is sent only with the
\* whole batch in the store, the event follows the write, and its summary
\* counts the batch and holds, for every sender of the batch, the position of
\* the sender's last record in the batch.
C24_AppendWriteNotify ==
    [][ /\ (arrived' # arrived /\ listen_pc # "not_started")
              => listen_pc = "store_latest"
        /\ db' # db
              => /\ listen_pc = "store_db"
                 /\ BatchStored
                 /\ published' = published
        /\ listen_pc = "store_db" => listen_pc' \in {"store_db", "emit_lock"}
        /\ published' # published
              => /\ listen_pc = "emit_send"
                 /\ BatchStored
                 /\ Last(published').points = gps_points
                 /\ \A k \in 1..Len(gps_points) :
                       LET s == gps_points[k].sender
                           entry == DictGet(Last(published').sender_summary, s)
                       IN /\ entry.total_points =
                                Smaller(Len(Arrivals(s)), max_points_per_sender)
                          /\ entry.latest_position =
                                << LastOf(gps_points, s).lat,
                                   LastOf(gps_points, s).lng >> ]_vars

\* the event of a batch of two points, sent after the table was written
C24_Witness ==
    /\ Len(published) = 1
    /\ Len(published[1].points) = 2
    /\ Len(db) >= 2
    /\ listen_pc = "frame_check"
    /\ DictGet(published[1].sender_summary, "s1").latest_position
           = << F(-9000), F(18000) >>


----------------------------------------------------------------------------
(* Properties of an empty batch *)

\* C25: a message that gives no records, and so an empty list of records,
\* changes neither the histories nor the latest records, writes nothing to
\* the table and sends no event.
C25_EmptyBatchIsNoOp ==
    [][ (parsed' # parsed /\ gps_points' = << >>)
            => UNCHANGED << gps_data, latest_positions, arrived, db, published >>
      ]_vars

\* a batch was stored and sent, and the message after it gave no record
C25_Witness ==
    /\ parsed = 2
    /\ gps_points = << >>
    /\ Len(published) = 1
    /\ Len(db) >= 1
    /\ Len(arrived) >= 1
    /\ listen_pc = "frame_body"


----------------------------------------------------------------------------
(* Properties of the emergency status *)

\* the point element has an emer element with the text 1
EmerIsOne(e) == Find(e, "emer") # Missing /\ Find(e, "emer")[1].text = "1"

\* C26: in the event sent for a message, emergency_active of the message's
\* sender is true exactly when the last point taken from the message has an
\* emer element with the text 1; the entries of the other senders are those
\* of the event before.
C26_EmergencyFromLatest ==
    [][ published' # published =>
          LET root == ParseXml(Last(emitted))
              summary == Last(published').sender_summary
          IN /\ DictGet(summary, SenderOf(root)).emergency_active
                    = EmerIsOne(Last(Chosen(root)))
             /\ \A i \in 1..Len(summary) :
                   summary[i].k # SenderOf(root)
                       => /\ published # << >>
                          /\ summary[i].v
                                = DictGet(Last(published).sender_summary,
                                          summary[i].k) ]_vars

\* the latest record of s1 has the emer text 1, that of s2 has no emer element
C26_Witness ==
    /\ Len(published) = 2
    /\ emitted = << Message("b"), Message("y") >>
    /\ DictGet(published[2].sender_summary, "s1").emergency_active
    /\ ~DictGet(published[2].sender_summary, "s2").emergency_active


----------------------------------------------------------------------------
(* Properties of the running flag *)

\* C28: once the listen loop has exited, running is false
C28_RunningOnlyInLoop == listen_pc = "exited" => ~running


----------------------------------------------------------------------------
(* Properties of the lock *)

ListenWaits == listen_pc \in {"store_lock", "emit_lock"}
ListenHolds ==
    listen_pc \in {"store_append", "store_limit", "store_latest", "emit_summary"}

\* C29: a thread asks for the lock only when it does not hold it, holds it
\* only inside a with block, and the listen thread that waits for the lock
\* obtains it.
C29_LockIsObtained ==
    /\ [](/\ ListenWaits => data_lock # "listen"
          /\ data_lock = "listen" <=> ListenHolds
          /\ data_lock = "web" <=> web_pc \in {"summary", "map"})
    /\ (ListenWaits ~> ListenHolds)

\* the listen thread waits for the lock to compute the summary of its event
\* while a request holds it
C29_Witness ==
    /\ listen_pc = "emit_lock"
    /\ data_lock = "web"
    /\ web_pc = "summary"


----------------------------------------------------------------------------
(* Properties of the map *)

\* C30: the centre of a map centred on the latest position is the position
\* of the record stored last, whichever sender it belongs to
C30_CentreIsLastStored ==
    arrived # << >> =>
        MapCenter(latest_positions) = << Last(arrived).lat, Last(arrived).lng >>

====
